---- MODULE Spec2Model ----
(***************************************************************************)
(* A model of toml-query's path resolution: the creating resolver          *)
(* (src/src/resolver/mut_creating_resolver.rs), the read entry points and  *)
(* typed accessors (src/src/read.rs), execute_query (src/src/query.rs)     *)
(* and the pieces they call.  A document is a toml Value tree; a query is  *)
(* a string, modelled as a sequence of characters.                         *)
(***************************************************************************)
EXTENDS Integers, Sequences, FiniteSets, TLC

VARIABLES
    doc,          \* the toml::Value document the caller owns
    pre,          \* the document as it was before the last call
    op,           \* the last operation: "idle", "create", "create_again",
                  \* "write", "read", "read_back", "read_string", "read_int",
                  \* "read_float", "read_bool", "execute_query"
    query,        \* the query string of the last call
    tokenized,    \* what the tokenizer returned for it
    res,          \* the result of the last call
    first,        \* "create_again": the result of the first of the two calls
    written,      \* "write", "read_back": the scalar written into the slot
    empty_query,  \* what the tokenizer does with the empty string (see below)
    call,         \* "execute_query": the Query object passed in
    executed      \* "execute_query": the calls of Query::execute it made

vars == <<doc, pre, op, query, tokenized, res, first, written, empty_query,
          call, executed>>

(***************************************************************************)
(* Bounds of the model.                                                    *)
(***************************************************************************)
MaxSegs == 3      \* segments of a query string
MaxDepth == 2     \* nesting below the root's entries in an initial document

(***************************************************************************)
(* toml::Value.  Table holds a BTreeMap (a function from keys to Values),  *)
(* Array a Vec (a sequence), the other variants a scalar.  A key is a      *)
(* string: a sequence of characters.                                       *)
(***************************************************************************)
Table(t) == [kind |-> "Table", tab |-> t]
Array(a) == [kind |-> "Array", ary |-> a]
Scalar(k, v) == [kind |-> k, val |-> v]

EmptyTable == Table(<<>>)
EmptyArray == Array(<<>>)

ScalarKinds == {"String", "Integer", "Float", "Boolean"}

IsScalar(v) == v.kind \in ScalarKinds

(***************************************************************************)
(* tokenizer::Token: Identifier { ident, next } or Index { idx, next }.    *)
(* A Token is a chain of one or more tokens: it is modelled as a non-empty *)
(* sequence, and tokens.next() as its tail (<<>> for None).                *)
(***************************************************************************)
Identifier(s) == [type |-> "Identifier", ident |-> s]
Index(i) == [type |-> "Index", idx |-> i]

token_next(tokens) == Tail(tokens)

(***************************************************************************)
(* error::ErrorKind, and the results of the calls.  A reference into the   *)
(* document (&Value, &mut Value) is modelled by the place it points to     *)
(* (ref: the steps from the root) together with the node found there.      *)
(***************************************************************************)
NoIndexInTable(i) == [name |-> "NoIndexInTable", idx |-> i]
NoIdentifierInArray(s) == [name |-> "NoIdentifierInArray", ident |-> s]
QueryingValueAsTable(s) == [name |-> "QueryingValueAsTable", ident |-> s]
QueryingValueAsArray(i) == [name |-> "QueryingValueAsArray", idx |-> i]
QueryParsingError == [name |-> "QueryParsingError"]
NotFoundError == [name |-> "NotFound"]

Ok(r, v) == [kind |-> "Ok", ref |-> r, val |-> v]
Some(r, v) == [kind |-> "Some", ref |-> r, val |-> v]
None == [kind |-> "None"]
Err(e) == [kind |-> "Err", err |-> e]
Panic == [kind |-> "Panic"]
Nil == [kind |-> "Nil"]

\* The reference a recursive call returns, seen from one node further up.
Below(tok, r) ==
    IF r.kind \in {"Ok", "Some"} THEN [r EXCEPT !.ref = <<tok>> \o @] ELSE r

(***************************************************************************)
(* The tokenizer (src/tokenizer.rs is not among the sources: modelled from *)
(* the specification, section 4.1).  The path is split on the separator;   *)
(* a segment "[<digits>]" is an Index, a segment with other bracket use is *)
(* a failure, any other segment is an Identifier holding it verbatim.      *)
(***************************************************************************)
Digits == <<"0", "1", "2", "3", "4", "5", "6", "7", "8", "9">>

IsDigit(c) == \E i \in 1..Len(Digits) : Digits[i] = c

DigitVal(c) == (CHOOSE i \in 1..Len(Digits) : Digits[i] = c) - 1

RECURSIVE ParseInt(_)
ParseInt(s) ==
    IF s = <<>> THEN 0
    ELSE 10 * ParseInt(SubSeq(s, 1, Len(s) - 1)) + DigitVal(s[Len(s)])

RECURSIVE Split(_, _)
Split(s, sep) ==
    IF \A i \in 1..Len(s) : s[i] # sep THEN <<s>>
    ELSE LET i == CHOOSE j \in 1..Len(s) :
                      s[j] = sep /\ \A k \in 1..(j - 1) : s[k] # sep
         IN <<SubSeq(s, 1, i - 1)>> \o Split(SubSeq(s, i + 1, Len(s)), sep)

has_array_brackets(s) == \E i \in 1..Len(s) : s[i] \in {"[", "]"}

IsBracketedInt(s) ==
    /\ Len(s) >= 3
    /\ s[1] = "["
    /\ s[Len(s)] = "]"
    /\ \A i \in 2..(Len(s) - 1) : IsDigit(s[i])

mk_token_object(s) ==
    IF ~has_array_brackets(s) THEN [ok |-> TRUE, tok |-> Identifier(s)]
    ELSE IF IsBracketedInt(s)
         THEN [ok |-> TRUE, tok |-> Index(ParseInt(SubSeq(s, 2, Len(s) - 1)))]
         ELSE [ok |-> FALSE]

(***************************************************************************)
(* The empty string.  The resolvers take a &Token, and a Token holds an    *)
(* identifier or an index: the tokenizer's Ok value cannot be a chain of   *)
(* zero tokens.  What the tokenizer returns for "" is therefore one of the *)
(* outcomes its type allows: an error, or the one token a plain split      *)
(* gives, the identifier "".  The model fixes the choice in empty_query.   *)
(***************************************************************************)
EmptyQueryOutcomes ==
    { [ok |-> FALSE, err |-> QueryParsingError],
      [ok |-> TRUE, tokens |-> <<Identifier(<<>>)>>] }

tokenize_with_seperator(q, sep) ==
    IF q = <<>> THEN empty_query
    ELSE LET segs == Split(q, sep)
             toks == [i \in 1..Len(segs) |-> mk_token_object(segs[i])]
         IN IF \A i \in 1..Len(segs) : toks[i].ok
            THEN [ok |-> TRUE, tokens |-> [i \in 1..Len(segs) |-> toks[i].tok]]
            ELSE [ok |-> FALSE, err |-> QueryParsingError]

(***************************************************************************)
(* The creating resolver, mut_creating_resolver::resolve.  It mutates the  *)
(* document in place; here it returns the node as it is after the call     *)
(* (toml) beside the result (res).                                         *)
(***************************************************************************)
\* Variant of or_insert: BTreeMap::insert, which replaces an entry that is
\* already there.
or_insert_overwrite(t, key, value) ==
    [k \in DOMAIN t \cup {key} |-> IF k = key THEN value ELSE t[k]]

\* BTreeMap::entry(key).or_insert(value)
or_insert(t, key, value) ==
    IF key \in DOMAIN t THEN t
    ELSE [k \in DOMAIN t \cup {key} |-> IF k = key THEN value ELSE t[k]]

RECURSIVE resolve(_, _)

\* Variant of resolve_table: a missing key is looked up, not created.
resolve_table_lookup(toml, tok, next) ==
    IF tok.type = "Identifier" THEN
        IF tok.ident \notin DOMAIN toml.tab
        THEN [toml |-> toml, res |-> Err(NotFoundError)]
        ELSE IF next # <<>>
             THEN LET r == resolve(toml.tab[tok.ident], next)
                  IN [toml |-> Table([toml.tab EXCEPT ![tok.ident] = r.toml]),
                      res |-> Below(tok, r.res)]
             ELSE [toml |-> toml, res |-> Ok(<<tok>>, toml.tab[tok.ident])]
    ELSE [toml |-> toml, res |-> Err(NoIndexInTable(tok.idx))]

\* Variant of resolve_table: an index on a table reports the error of an
\* index on a scalar.
resolve_table_wrong_kind(toml, tok, next) ==
    IF tok.type = "Identifier" THEN
        LET t == or_insert(toml.tab, tok.ident, EmptyTable)
            sub_document == t[tok.ident]
        IN IF next # <<>>
           THEN LET r == resolve(sub_document, next)
                IN [toml |-> Table([t EXCEPT ![tok.ident] = r.toml]),
                    res |-> Below(tok, r.res)]
           ELSE [toml |-> Table(t), res |-> Ok(<<tok>>, sub_document)]
    ELSE [toml |-> toml, res |-> Err(QueryingValueAsArray(tok.idx))]

\* &mut Value::Table(ref mut t)
resolve_table(toml, tok, next) ==
    IF tok.type = "Identifier" THEN
        LET t == or_insert(toml.tab, tok.ident, EmptyTable)
            sub_document == t[tok.ident]
        IN IF next # <<>>
           THEN LET r == resolve(sub_document, next)
                IN [toml |-> Table([t EXCEPT ![tok.ident] = r.toml]),
                    res |-> Below(tok, r.res)]
           ELSE [toml |-> Table(t), res |-> Ok(<<tok>>, sub_document)]
    ELSE [toml |-> toml, res |-> Err(NoIndexInTable(tok.idx))]

\* Variant of resolve_array: an identifier on an array reports the error of
\* an identifier on a scalar.
resolve_array_wrong_kind(toml, tok, next) ==
    IF tok.type = "Index" THEN
        IF tok.idx >= Len(toml.ary) THEN [toml |-> toml, res |-> Panic]
        ELSE IF next # <<>>
             THEN LET r == resolve(toml.ary[tok.idx + 1], next)
                  IN [toml |-> Array([toml.ary EXCEPT ![tok.idx + 1] = r.toml]),
                      res |-> Below(tok, r.res)]
             ELSE [toml |-> toml, res |-> Ok(<<tok>>, toml.ary[tok.idx + 1])]
    ELSE [toml |-> toml, res |-> Err(QueryingValueAsTable(tok.ident))]

\* Variant of resolve_array: every index within bounds yields the first
\* element.
resolve_array_first(toml, tok, next) ==
    IF tok.type = "Index" THEN
        IF tok.idx >= Len(toml.ary) THEN [toml |-> toml, res |-> Panic]
        ELSE IF next # <<>>
             THEN LET r == resolve(toml.ary[1], next)
                  IN [toml |-> Array([toml.ary EXCEPT ![1] = r.toml]),
                      res |-> Below(tok, r.res)]
             ELSE [toml |-> toml, res |-> Ok(<<tok>>, toml.ary[1])]
    ELSE [toml |-> toml, res |-> Err(NoIdentifierInArray(tok.ident))]

\* Variant of resolve_array: an index past the end pushes a new table and
\* yields it.
resolve_array_push(toml, tok, next) ==
    IF tok.type = "Index" THEN
        LET past == tok.idx >= Len(toml.ary)
            ary == IF past THEN Append(toml.ary, EmptyTable) ELSE toml.ary
            at == IF past THEN Len(ary) ELSE tok.idx + 1
        IN IF next # <<>>
           THEN LET r == resolve(ary[at], next)
                IN [toml |-> Array([ary EXCEPT ![at] = r.toml]),
                    res |-> Below(Index(at - 1), r.res)]
           ELSE [toml |-> Array(ary), res |-> Ok(<<Index(at - 1)>>, ary[at])]
    ELSE [toml |-> toml, res |-> Err(NoIdentifierInArray(tok.ident))]

\* &mut Value::Array(ref mut ary).  ary.get_mut(idx).unwrap() and
\* ary.index_mut(idx) both panic when idx is not below the length.
resolve_array(toml, tok, next) ==
    IF tok.type = "Index" THEN
        IF tok.idx >= Len(toml.ary) THEN [toml |-> toml, res |-> Panic]
        ELSE IF next # <<>>
             THEN LET r == resolve(toml.ary[tok.idx + 1], next)
                  IN [toml |-> Array([toml.ary EXCEPT ![tok.idx + 1] = r.toml]),
                      res |-> Below(tok, r.res)]
             ELSE [toml |-> toml, res |-> Ok(<<tok>>, toml.ary[tok.idx + 1])]
    ELSE [toml |-> toml, res |-> Err(NoIdentifierInArray(tok.ident))]

\* _ : any other Value
resolve_value(toml, tok, next) ==
    IF tok.type = "Identifier"
    THEN [toml |-> toml, res |-> Err(QueryingValueAsTable(tok.ident))]
    ELSE [toml |-> toml, res |-> Err(QueryingValueAsArray(tok.idx))]

\* Variant of resolve: an empty identifier stays on the node it is applied to.
resolve_root_on_empty(toml, tokens) ==
    IF Head(tokens) = Identifier(<<>>)
    THEN [toml |-> toml, res |-> Ok(<<>>, toml)]
    ELSE IF toml.kind = "Table"
         THEN resolve_table(toml, Head(tokens), token_next(tokens))
         ELSE IF toml.kind = "Array"
              THEN resolve_array(toml, Head(tokens), token_next(tokens))
              ELSE resolve_value(toml, Head(tokens), token_next(tokens))

resolve(toml, tokens) ==
    IF toml.kind = "Table"
    THEN resolve_table(toml, Head(tokens), token_next(tokens))
    ELSE IF toml.kind = "Array"
         THEN resolve_array(toml, Head(tokens), token_next(tokens))
         ELSE resolve_value(toml, Head(tokens), token_next(tokens))

(***************************************************************************)
(* The read resolver, resolver::non_mut_resolver::resolve (not among the   *)
(* sources: modelled from the specification, section 4.2).  read.rs always *)
(* passes error_if_not_found = false.                                      *)
(***************************************************************************)
RECURSIVE non_mut_resolve(_, _, _)
non_mut_resolve(toml, tokens, error_if_not_found) ==
    LET tok == Head(tokens)
        next == token_next(tokens)
        absent == IF error_if_not_found THEN Err(NotFoundError) ELSE None
    IN
    IF toml.kind = "Table" THEN
        IF tok.type = "Identifier" THEN
            IF tok.ident \in DOMAIN toml.tab
            THEN IF next # <<>>
                 THEN Below(tok, non_mut_resolve(toml.tab[tok.ident], next,
                                                 error_if_not_found))
                 ELSE Some(<<tok>>, toml.tab[tok.ident])
            ELSE absent
        ELSE Err(NoIndexInTable(tok.idx))
    ELSE IF toml.kind = "Array" THEN
        IF tok.type = "Index" THEN
            IF tok.idx < Len(toml.ary)
            THEN IF next # <<>>
                 THEN Below(tok, non_mut_resolve(toml.ary[tok.idx + 1], next,
                                                 error_if_not_found))
                 ELSE Some(<<tok>>, toml.ary[tok.idx + 1])
            ELSE absent
        ELSE Err(NoIdentifierInArray(tok.ident))
    ELSE
        IF tok.type = "Identifier"
        THEN Err(QueryingValueAsTable(tok.ident))
        ELSE Err(QueryingValueAsArray(tok.idx))

(***************************************************************************)
(* TomlValueReadExt for Value (src/src/read.rs).                           *)
(***************************************************************************)
\* Variant of read_with_seperator: the creating resolver is the one used.
read_with_seperator_creating(self, q, sep) ==
    LET t == tokenize_with_seperator(q, sep)
    IN IF t.ok
       THEN LET r == resolve(self, t.tokens).res
            IN IF r.kind = "Ok" THEN Some(r.ref, r.val) ELSE r
       ELSE Err(t.err)

\* Variant of read_with_seperator: the separator passed in is not the one
\* the query is split on.
read_with_seperator_slash(self, q, sep) ==
    LET t == tokenize_with_seperator(q, "/")
    IN IF t.ok THEN non_mut_resolve(self, t.tokens, FALSE) ELSE Err(t.err)

read_with_seperator(self, q, sep) ==
    LET t == tokenize_with_seperator(q, sep)
    IN IF t.ok THEN non_mut_resolve(self, t.tokens, FALSE) ELSE Err(t.err)

read(self, q) == read_with_seperator(self, q, ".")

(***************************************************************************)
(* The typed accessors of TomlValueReadTypeExt (src/src/read.rs), which    *)
(* the macro make_type_getter! generates.  util::name_of_val is not under  *)
(* src/: by the specification it is the name of the value's variant.       *)
(***************************************************************************)
TypeError(expected, actual) ==
    [name |-> "TypeError", expected |-> expected, actual |-> actual]
NotAvailable(q) == [name |-> "NotAvailable", query |-> q]

\* The Ok of a typed accessor: the scalar itself, not a reference to a node.
OkValue(x) == [kind |-> "Ok", val |-> x]

name_of_val(v) ==
    CASE v.kind = "Table"   -> "Table"
      [] v.kind = "Array"   -> "Array"
      [] v.kind = "String"  -> "String"
      [] v.kind = "Integer" -> "Integer"
      [] v.kind = "Float"   -> "Float"
      [] v.kind = "Boolean" -> "Boolean"

\* Variant of make_type_getter: a node of another variant is handed out as
\* it is, and a path that finds nothing is a type error.
make_type_getter_untyped(typename, variant, self, q) ==
    LET o == read_with_seperator(self, q, ".")
    IN IF o.kind = "Err" THEN o
       ELSE IF o.kind = "Some"
            THEN IF IsScalar(o.val) THEN OkValue(o.val.val)
                 ELSE Err(NotAvailable(q))
            ELSE Err(TypeError(typename, "None"))

\* typename is the name the TypeError carries, variant the Value variant
\* the matcher of the getter accepts.
make_type_getter(typename, variant, self, q) ==
    LET o == read_with_seperator(self, q, ".")
    IN IF o.kind = "Err" THEN o
       ELSE IF o.kind = "Some"
            THEN IF o.val.kind = variant
                 THEN OkValue(o.val.val)
                 ELSE Err(TypeError(typename, name_of_val(o.val)))
            ELSE Err(NotAvailable(q))

read_string(self, q) == make_type_getter("String", "String", self, q)
read_int(self, q) == make_type_getter("Integer", "Integer", self, q)
read_float(self, q) == make_type_getter("Float", "Float", self, q)
read_bool(self, q) == make_type_getter("Boolean", "Boolean", self, q)

(***************************************************************************)
(* resolve_or_create: the tokenizer, then the creating resolver on the     *)
(* document root (the specification's entry point, section 6; in the       *)
(* sources the tests' do_resolve! does the same).                          *)
(***************************************************************************)
resolve_or_create(toml, q) ==
    LET t == tokenize_with_seperator(q, ".")
    IN IF t.ok THEN resolve(toml, t.tokens)
       ELSE [toml |-> toml, res |-> Err(t.err)]

\* *slot = v through the &mut Value the creating resolver returned.
RECURSIVE assign(_, _, _)
assign(toml, ref, v) ==
    IF ref = <<>> THEN v
    ELSE LET tok == Head(ref)
         IN IF tok.type = "Identifier"
            THEN Table([toml.tab EXCEPT
                     ![tok.ident] = assign(@, Tail(ref), v)])
            ELSE Array([toml.ary EXCEPT
                     ![tok.idx + 1] = assign(@, Tail(ref), v)])

(***************************************************************************)
(* read_mut (src/src/read.rs).  resolver::mut_resolver is not under src/:  *)
(* by the specification it walks as the read resolver does, creates        *)
(* nothing, and hands out the node mutably.                                *)
(***************************************************************************)
mut_resolve(toml, tokens, error_if_not_found) ==
    non_mut_resolve(toml, tokens, error_if_not_found)

read_mut_with_seperator(self, q, sep) ==
    LET t == tokenize_with_seperator(q, sep)
    IN IF t.ok THEN mut_resolve(self, t.tokens, FALSE) ELSE Err(t.err)

read_mut(self, q) == read_mut_with_seperator(self, q, ".")

(***************************************************************************)
(* Query and Queryable::execute_query (src/src/query.rs).  A Query object  *)
(* is its implementation, its query_path() and its next().                 *)
(***************************************************************************)
Query(impl, path, next) == [impl |-> impl, path |-> path, next |-> next]

QueryFailed == [name |-> "QueryFailed"]
Replacement == Scalar("String", "q")

\* q.execute(target): the target after the call and the value returned.
\* ReadQuery clones the target; SetQuery stores a string in it and returns
\* what was there; FailQuery returns an error.
execute(q, target) ==
    CASE q.impl = "ReadQuery" -> [target |-> target, out |-> OkValue(target)]
      [] q.impl = "SetQuery"  -> [target |-> Replacement,
                                  out |-> OkValue(target)]
      [] q.impl = "FailQuery" -> [target |-> target, out |-> Err(QueryFailed)]

\* One entry of the record of execute calls: which query, on which node.
Executed(q, ref) == [impl |-> q.impl, path |-> q.path, on |-> ref]

\* Variant of execute_query: a path that finds nothing is not checked for,
\* the query runs on the document itself.
execute_query_unchecked(self, q) ==
    LET r == read_mut(self, q.path)
    IN IF r.kind = "Err"
       THEN [toml |-> self, res |-> r, executed |-> <<>>]
       ELSE LET ref == IF r.kind = "Some" THEN r.ref ELSE <<>>
                v == IF r.kind = "Some" THEN r.val ELSE self
                e == execute(q, v)
            IN [toml |-> assign(self, ref, e.target),
                res |-> e.out,
                executed |-> <<Executed(q, ref)>>]

execute_query(self, q) ==
    LET r == read_mut(self, q.path)
    IN IF q.next # Nil
       THEN IF r.kind = "Err"
            THEN [toml |-> self, res |-> r, executed |-> <<>>]
            ELSE IF r.kind = "Some"
                 THEN LET e1 == execute(q, r.val)
                          e2 == execute(q.next, e1.target)
                      IN [toml |-> assign(self, r.ref, e2.target),
                          res |-> e2.out,
                          executed |-> << Executed(q, r.ref),
                                          Executed(q.next, r.ref) >>]
                 ELSE [toml |-> self,
                       res |-> Err(NotAvailable(q.path)),
                       executed |-> <<>>]
       ELSE IF r.kind = "Err"
            THEN [toml |-> self, res |-> r, executed |-> <<>>]
            ELSE IF r.kind = "Some"
                 THEN LET e == execute(q, r.val)
                      IN [toml |-> assign(self, r.ref, e.target),
                          res |-> e.out,
                          executed |-> <<Executed(q, r.ref)>>]
                 ELSE [toml |-> self,
                       res |-> Err(NotAvailable(q.path)),
                       executed |-> <<>>]

(***************************************************************************)
(* The documents and the query strings the model starts from.              *)
(***************************************************************************)
Scalars ==
    { Scalar("String", "s"), Scalar("Integer", "1"),
      Scalar("Float", "1.0"), Scalar("Boolean", "true") }

\* A second array element of the same type as v (toml arrays are
\* homogeneous).
Sibling(v) ==
    CASE v.kind = "String" -> Scalar("String", "t")
      [] v.kind = "Integer" -> Scalar("Integer", "2")
      [] v.kind = "Float" -> Scalar("Float", "2.0")
      [] v.kind = "Boolean" -> Scalar("Boolean", "false")
      [] v.kind = "Table" -> EmptyTable
      [] v.kind = "Array" -> EmptyArray

RECURSIVE Values(_)
Values(d) ==
    IF d = 0 THEN Scalars \cup {EmptyTable, EmptyArray}
    ELSE LET V == Values(d - 1)
         IN V \cup { Table(<<"a">> :> v) : v \in V }
              \cup { Array(<<v>>) : v \in V }
              \cup { Array(<<v, Sibling(v)>>) : v \in V }

Documents ==
    {EmptyTable} \cup { Table(<<"a">> :> v) : v \in Values(MaxDepth) }

Segments == { <<"a">>, <<"b">>, <<"[", "0", "]">>, <<"[", "1", "]">> }

\* Strings with malformed bracket syntax.
Malformed == { <<"[", "a", "]">>, <<"a", ".", "[">>, <<"[", "0">> }

RECURSIVE Join(_)
Join(segs) ==
    IF Len(segs) = 1 THEN segs[1]
    ELSE segs[1] \o <<".">> \o Join(Tail(segs))

Queries ==
    {<<>>} \cup Malformed \cup
    { Join(p) : p \in UNION { [1..n -> Segments] : n \in 1..MaxSegs } }

(***************************************************************************)
(* The state machine.                                                      *)
(***************************************************************************)
Init ==
    /\ doc \in Documents
    /\ pre = doc
    /\ op = "idle"
    /\ query = <<>>
    /\ tokenized = Nil
    /\ res = Nil
    /\ first = Nil
    /\ written = Nil
    /\ empty_query \in EmptyQueryOutcomes
    /\ call = Nil
    /\ executed = <<>>

\* resolve_or_create(doc, q)
ResolveOrCreate(q) ==
    /\ op = "idle"
    /\ LET r == resolve_or_create(doc, q)
       IN /\ doc' = r.toml
          /\ res' = r.res
    /\ pre' = doc
    /\ op' = "create"
    /\ query' = q
    /\ tokenized' = tokenize_with_seperator(q, ".")
    /\ UNCHANGED <<first, written, empty_query,
                 call, executed>>

\* The same call once more, nothing done in between.
ResolveAgain ==
    /\ op = "create"
    /\ res.kind = "Ok"
    /\ LET r == resolve_or_create(doc, query)
       IN /\ doc' = r.toml
          /\ res' = r.res
    /\ pre' = doc
    /\ op' = "create_again"
    /\ first' = res
    /\ UNCHANGED <<query, tokenized, written, empty_query,
                 call, executed>>

\* A scalar written into the slot the creating resolver returned.
Write(v) ==
    /\ op = "create"
    /\ res.kind = "Ok"
    /\ doc' = assign(doc, res.ref, v)
    /\ pre' = doc
    /\ op' = "write"
    /\ written' = v
    /\ UNCHANGED <<query, tokenized, res, first, empty_query,
                 call, executed>>

\* doc.read(q): the document is borrowed immutably.
Read(q) ==
    /\ op = "idle"
    /\ res' = read(doc, q)
    /\ pre' = doc
    /\ op' = "read"
    /\ query' = q
    /\ tokenized' = tokenize_with_seperator(q, ".")
    /\ UNCHANGED <<doc, first, written, empty_query,
                 call, executed>>

\* doc.read of the path just written to.
ReadBack ==
    /\ op = "write"
    /\ res' = read(doc, query)
    /\ pre' = doc
    /\ op' = "read_back"
    /\ UNCHANGED <<doc, query, tokenized, first, written, empty_query,
                 call, executed>>

Next ==
    \/ \E q \in Queries : ResolveOrCreate(q)
    \/ ResolveAgain
    \/ \E v \in Scalars : Write(v)
    \/ \E q \in Queries : Read(q)
    \/ ReadBack

Spec == Init /\ [][Next]_vars

(***************************************************************************)
(* The typed accessors, called on a document as it was loaded.             *)
(***************************************************************************)
\* doc.read_string(q)
ReadString ==
    /\ op = "idle"
    /\ \E q \in Queries :
          /\ res' = read_string(doc, q)
          /\ query' = q
          /\ tokenized' = tokenize_with_seperator(q, ".")
    /\ pre' = doc
    /\ op' = "read_string"
    /\ UNCHANGED <<doc, first, written, empty_query, call, executed>>

\* doc.read_int(q)
ReadInt ==
    /\ op = "idle"
    /\ \E q \in Queries :
          /\ res' = read_int(doc, q)
          /\ query' = q
          /\ tokenized' = tokenize_with_seperator(q, ".")
    /\ pre' = doc
    /\ op' = "read_int"
    /\ UNCHANGED <<doc, first, written, empty_query, call, executed>>

\* doc.read_float(q)
ReadFloat ==
    /\ op = "idle"
    /\ \E q \in Queries :
          /\ res' = read_float(doc, q)
          /\ query' = q
          /\ tokenized' = tokenize_with_seperator(q, ".")
    /\ pre' = doc
    /\ op' = "read_float"
    /\ UNCHANGED <<doc, first, written, empty_query, call, executed>>

\* doc.read_bool(q)
ReadBool ==
    /\ op = "idle"
    /\ \E q \in Queries :
          /\ res' = read_bool(doc, q)
          /\ query' = q
          /\ tokenized' = tokenize_with_seperator(q, ".")
    /\ pre' = doc
    /\ op' = "read_bool"
    /\ UNCHANGED <<doc, first, written, empty_query, call, executed>>

NextTyped ==
    \/ ReadString
    \/ ReadInt
    \/ ReadFloat
    \/ ReadBool

SpecTyped == Init /\ [][NextTyped]_vars

(***************************************************************************)
(* execute_query.  The Query objects passed in: one of three               *)
(* implementations on any query string, alone or with a next() of its own  *)
(* path.                                                                   *)
(***************************************************************************)
QueryImpls == {"ReadQuery", "SetQuery", "FailQuery"}
NextImpls == {"ReadQuery", "SetQuery"}
NextPaths == { <<"a">>, <<"b">> }

SingleQueries == { Query(i, p, Nil) : i \in QueryImpls, p \in Queries }

ChainedQueries ==
    { Query(i, p, Query(j, np, Nil)) :
        i \in QueryImpls, p \in Queries, j \in NextImpls, np \in NextPaths }

\* doc.execute_query(&q), q one of the Query objects in queries.
ExecuteQuery(queries) ==
    /\ op = "idle"
    /\ \E q \in queries : \E r \in {execute_query(doc, q)} :
          /\ doc' = r.toml
          /\ res' = r.res
          /\ executed' = r.executed
          /\ query' = q.path
          /\ tokenized' = tokenize_with_seperator(q.path, ".")
          /\ call' = q
    /\ pre' = doc
    /\ op' = "execute_query"
    /\ UNCHANGED <<first, written, empty_query>>

\* Queries without a next().
NextQuery == ExecuteQuery(SingleQueries)

SpecQuery == Init /\ [][NextQuery]_vars

\* Queries with a next().
NextChained == ExecuteQuery(ChainedQueries)

SpecChained == Init /\ [][NextChained]_vars

(***************************************************************************)
(* Vocabulary of the properties.                                           *)
(***************************************************************************)
Absent == [kind |-> "Absent"]

\* The node found by following steps from node, Absent when a step has no
\* such key or element.
RECURSIVE At(_, _)
At(node, steps) ==
    IF steps = <<>> THEN node
    ELSE LET s == Head(steps)
         IN IF /\ node.kind = "Table"
               /\ s.type = "Identifier"
               /\ s.ident \in DOMAIN node.tab
            THEN At(node.tab[s.ident], Tail(steps))
            ELSE IF /\ node.kind = "Array"
                    /\ s.type = "Index"
                    /\ s.idx < Len(node.ary)
                 THEN At(node.ary[s.idx + 1], Tail(steps))
                 ELSE Absent

\* The node a creating walk stands on after steps: as At, but a key missing
\* from a table leads into a new empty table.
RECURSIVE Walked(_, _)
Walked(node, steps) ==
    IF steps = <<>> THEN node
    ELSE LET s == Head(steps)
         IN IF node.kind = "Table" /\ s.type = "Identifier"
            THEN IF s.ident \in DOMAIN node.tab
                 THEN Walked(node.tab[s.ident], Tail(steps))
                 ELSE Walked(EmptyTable, Tail(steps))
            ELSE IF /\ node.kind = "Array"
                    /\ s.type = "Index"
                    /\ s.idx < Len(node.ary)
                 THEN Walked(node.ary[s.idx + 1], Tail(steps))
                 ELSE Absent

\* The tables a creating walk makes for the keys of ts, innermost empty.
RECURSIVE Chain(_)
Chain(ts) ==
    IF ts = <<>> THEN EmptyTable
    ELSE Table(Head(ts).ident :> Chain(Tail(ts)))

Toks == tokenized.tokens
Prefix(i) == SubSeq(Toks, 1, i)
Rest(i) == SubSeq(Toks, i + 1, Len(Toks))

CreateCall == op \in {"create", "create_again"} /\ tokenized.ok
ReadCall == op \in {"read", "read_back"} /\ tokenized.ok

AllIdentifiers(ts) == \A i \in 1..Len(ts) : ts[i].type = "Identifier"

LacksKey(node, tok) ==
    /\ node.kind = "Table"
    /\ tok.type = "Identifier"
    /\ tok.ident \notin DOMAIN node.tab

Q_a == <<"a">>
Q_a_b == <<"a", ".", "b">>
Q_a_0 == <<"a", ".", "[", "0", "]">>
Key_a == Identifier(<<"a">>)
Key_b == Identifier(<<"b">>)

(***************************************************************************)
(* C1.  Creating resolver, path of Identifier tokens only: when the walk   *)
(* stands on a table that lacks the current key, an empty table is         *)
(* inserted at that key (the table's other entries kept) and the walk goes *)
(* on into it, so the call succeeds, the tables for the remaining keys are *)
(* created one inside the other, and the innermost, empty one is returned. *)
(***************************************************************************)
C1_CreatesMissingTables ==
    (CreateCall /\ AllIdentifiers(Toks)) =>
        \A i \in 1..Len(Toks) :
            LacksKey(At(pre, Prefix(i - 1)), Toks[i]) =>
                /\ res = Ok(Toks, EmptyTable)
                /\ At(doc, Prefix(i)) = Chain(Rest(i))
                /\ At(doc, Toks) = EmptyTable
                /\ \A k \in DOMAIN At(pre, Prefix(i - 1)).tab :
                       At(doc, Prefix(i - 1)).tab[k] = At(pre, Prefix(i - 1)).tab[k]

\* The empty document and "a.b": the document becomes {a: {b: {}}}.
C1_Witness ==
    /\ op = "create"
    /\ query = Q_a_b
    /\ pre = EmptyTable
    /\ doc = Table(<<"a">> :> Table(<<"b">> :> EmptyTable))
    /\ res = Ok(<<Key_a, Key_b>>, EmptyTable)

C3_ReadMissingKeyIsNone ==
    ReadCall =>
        \A i \in 1..Len(Toks) :
            LacksKey(At(pre, Prefix(i - 1)), Toks[i]) =>
                (res = None /\ doc = pre)

\* {a: {}} and "a.b": the key is missing one level below the root.
C3_Witness ==
    /\ op = "read"
    /\ query = Q_a_b
    /\ doc = Table(<<"a">> :> EmptyTable)
    /\ res = None

(***************************************************************************)
(* C4.  Creating resolver: an Index token met on an array, with the index  *)
(* not below the array's length, gives an error result (no panic, no       *)
(* success), and the array is not extended.                                *)
(***************************************************************************)
C4_OutOfBoundsIsError ==
    CreateCall =>
        \A i \in 1..Len(Toks) :
            ( /\ Toks[i].type = "Index"
              /\ Walked(pre, Prefix(i - 1)).kind = "Array"
              /\ Toks[i].idx >= Len(Walked(pre, Prefix(i - 1)).ary) )
                => ( /\ res.kind = "Err"
                     /\ At(doc, Prefix(i - 1)) = At(pre, Prefix(i - 1)) )

(***************************************************************************)
(* C5.  Creating resolver: a token met on a scalar leaf fails with         *)
(* QueryingValueAsTable (Identifier) or QueryingValueAsArray (Index), and  *)
(* the leaf holds the value it held before the call.                       *)
(***************************************************************************)
C5_ScalarNotOverwritten ==
    CreateCall =>
        \A i \in 1..Len(Toks) :
            IsScalar(Walked(pre, Prefix(i - 1))) =>
                /\ res = Err(IF Toks[i].type = "Identifier"
                             THEN QueryingValueAsTable(Toks[i].ident)
                             ELSE QueryingValueAsArray(Toks[i].idx))
                /\ At(doc, Prefix(i - 1)) = At(pre, Prefix(i - 1))

\* {a: 1} and "a.b".
C5_Witness ==
    /\ op = "create"
    /\ query = Q_a_b
    /\ pre = Table(<<"a">> :> Scalar("Integer", "1"))
    /\ doc = pre
    /\ res = Err(QueryingValueAsTable(<<"b">>))

(***************************************************************************)
(* C6.  Creating resolver: an Identifier token met on an array, empty or   *)
(* not, at any position of the path, fails with NoIdentifierInArray        *)
(* carrying the identifier.                                                *)
(***************************************************************************)
C6_NoIdentifierInArray ==
    CreateCall =>
        \A i \in 1..Len(Toks) :
            (Toks[i].type = "Identifier" /\ Walked(pre, Prefix(i - 1)).kind = "Array")
                => res = Err(NoIdentifierInArray(Toks[i].ident))

\* {a: [[]]} and "a.[0].b": the identifier is the third token and meets an
\* empty array.
C6_Witness ==
    /\ op = "create"
    /\ query = <<"a", ".", "[", "0", "]", ".", "b">>
    /\ pre = Table(<<"a">> :> Array(<<EmptyArray>>))
    /\ res = Err(NoIdentifierInArray(<<"b">>))

(***************************************************************************)
(* C7.  Creating resolver: when every segment of the path exists (each     *)
(* key in the table reached, each index within the array reached), the     *)
(* call succeeds, returns the node found by following the tokens from the  *)
(* root, and the document is as it was.                                    *)
(***************************************************************************)
C7_ExistingPathIsFound ==
    CreateCall =>
        ( (\A i \in 1..Len(Toks) : At(pre, Prefix(i)) # Absent)
            => (res = Ok(Toks, At(pre, Toks)) /\ doc = pre) )

\* {a: ["s", "t"]} and "a.[1]": the second element.
C7_Witness ==
    /\ op = "create"
    /\ query = <<"a", ".", "[", "1", "]">>
    /\ pre = Table(<<"a">> :> Array(<<Scalar("String", "s"), Scalar("String", "t")>>))
    /\ doc = pre
    /\ res = Ok(<<Key_a, Index(1)>>, Scalar("String", "t"))

(***************************************************************************)
(* C8.  Idempotence: after a successful resolve_or_create, the same call   *)
(* again returns the same node and creates nothing.                        *)
(***************************************************************************)
C8_Idempotent ==
    op = "create_again" =>
        /\ res.kind = "Ok"
        /\ res.ref = first.ref
        /\ res.val = first.val
        /\ doc = pre

\* "a.b" twice: the first call made the table under b (no initial document
\* holds that key), the second finds it and returns the same node.
C8_Witness ==
    /\ op = "create_again"
    /\ query = Q_a_b
    /\ doc = Table(<<"a">> :> Table(<<"b">> :> EmptyTable))
    /\ res = first

(***************************************************************************)
(* C9.  Round trip: after resolve_or_create succeeds on a path of          *)
(* identifiers and a scalar v is written into the slot it returned, read   *)
(* of the same path returns Some(v).                                       *)
(***************************************************************************)
C9_RoundTrip ==
    (op = "read_back" /\ tokenized.ok /\ AllIdentifiers(Toks)) =>
        (res.kind = "Some" /\ res.val = written /\ res.ref = Toks)

\* "a.b.a" from the empty document, the integer 1 written.
C9_Witness ==
    /\ op = "read_back"
    /\ query = <<"a", ".", "b", ".", "a">>
    /\ written = Scalar("Integer", "1")
    /\ doc = Table(<<"a">> :> Table(<<"b">> :> Table(<<"a">> :> written)))
    /\ res = Some(<<Key_a, Key_b, Key_a>>, written)

C14_ErrorLeavesDocument ==
    (CreateCall /\ res.kind = "Err") => doc = pre

(***************************************************************************)
(* C15.  Creating resolver, the keys of the path missing from the document *)
(* and the path ending in an Index token after them ("example.foo.[0]" on  *)
(* the empty document): the call succeeds and returns an empty array.      *)
(***************************************************************************)
C15_MissingKeysThenIndex ==
    ( /\ CreateCall
      /\ Len(Toks) >= 3
      /\ AllIdentifiers(Prefix(Len(Toks) - 1))
      /\ Toks[Len(Toks)].type = "Index"
      /\ LacksKey(pre, Toks[1]) )
        => (res.kind = "Ok" /\ res.val = EmptyArray)

(***************************************************************************)
(* C13.  The typed accessors read_string / read_int / read_float /         *)
(* read_bool: the scalar when the read resolver finds a node of the        *)
(* expected variant; TypeError(expected type name, name of the actual      *)
(* variant) for a node of any other variant, tables and arrays included;   *)
(* NotAvailable(path) when the resolver finds nothing; and the resolver's  *)
(* own error, unchanged, when it fails.                                    *)
(***************************************************************************)
TypedCall == op \in {"read_string", "read_int", "read_float", "read_bool"}

\* The variant the accessor called last is for.
Expected ==
    CASE op = "read_string" -> "String"
      [] op = "read_int"    -> "Integer"
      [] op = "read_float"  -> "Float"
      [] op = "read_bool"   -> "Boolean"

C13_TypedAccessor ==
    TypedCall =>
        IF ~tokenized.ok THEN res = Err(tokenized.err)
        ELSE LET found == At(doc, Toks)
                 r == non_mut_resolve(doc, Toks, FALSE)
             IN IF found # Absent
                THEN IF found.kind = Expected
                     THEN res = OkValue(found.val)
                     ELSE res = Err(TypeError(Expected, found.kind))
                ELSE IF r = None
                     THEN res = Err(NotAvailable(query))
                     ELSE r.kind = "Err" /\ res = r

\* read_int on a path that ends at a table.
C13_Witness ==
    /\ op = "read_int"
    /\ tokenized.ok
    /\ At(doc, Toks) # Absent
    /\ At(doc, Toks).kind = "Table"
    /\ res = Err(TypeError("Integer", "Table"))

(***************************************************************************)
(* C12.  execute_query with a query that has no next(): when read_mut of   *)
(* query_path() finds a node, the result is q.execute on that node; when   *)
(* the path finds nothing, q.execute is not called and the result is       *)
(* NotAvailable carrying the query path; when resolving the path fails     *)
(* (tokenizer or structural error), that error is the result and           *)
(* q.execute is not called.                                                *)
(***************************************************************************)
QueryCall == op = "execute_query"

C12_ExecuteQueryNoNext ==
    (QueryCall /\ call.next = Nil) =>
        IF ~tokenized.ok
        THEN res = Err(tokenized.err) /\ executed = <<>> /\ doc = pre
        ELSE LET target == At(pre, Toks)
                 r == non_mut_resolve(pre, Toks, FALSE)
             IN IF target # Absent
                THEN /\ executed = <<Executed(call, Toks)>>
                     /\ res = execute(call, target).out
                     /\ At(doc, Toks) = execute(call, target).target
                ELSE /\ executed = <<>>
                     /\ doc = pre
                     /\ IF r = None
                        THEN res = Err(NotAvailable(call.path))
                        ELSE r.kind = "Err" /\ res = r

\* A path that finds nothing: NotAvailable, nothing executed.
C12_Witness ==
    /\ QueryCall
    /\ call.next = Nil
    /\ tokenized.ok
    /\ At(pre, Toks) = Absent
    /\ res = Err(NotAvailable(call.path))
    /\ executed = <<>>

(***************************************************************************)
(* C11.  execute_query with a query whose next() yields a query: q.execute *)
(* runs first and its return value is dropped; then the next query is      *)
(* executed through execute_query itself, with the same semantics: its own *)
(* query_path() is resolved before its execute runs, a missing path for    *)
(* it yields NotAvailable, and its own next() is followed in turn.         *)
(* "Through execute_query" is read both ways: on the document, or on the   *)
(* node q ran on.                                                          *)
(***************************************************************************)
C11_NextThroughExecuteQuery ==
    (QueryCall /\ call.next # Nil /\ tokenized.ok /\ At(pre, Toks) # Absent)
        => LET e == execute(call, At(pre, Toks))
               onDocument == execute_query(assign(pre, Toks, e.target),
                                           call.next)
               onTarget == execute_query(e.target, call.next)
           IN /\ Len(executed) >= 1
              /\ executed[1] = Executed(call, Toks)
              /\ \E d \in {onDocument, onTarget} :
                     /\ res = d.res
                     /\ Len(executed) = 1 + Len(d.executed)

====
